---- MODULE Spec2Model ----
(***************************************************************************)
(* A model of js/interpreter.js, the client-side page interpreter of the   *)
(* engineering portfolio: route parsing, page JSON retrieval, rendering    *)
(* by element type, hydration of script blocks and the copy control.       *)
(*                                                                         *)
(* Strings are sequences of tokens.  A token is one character ("/", ".",   *)
(* "*", "&", ...) or an atom that the code never looks inside of in the    *)
(* inputs drawn here: a word ("DE", "a"), a percent escape ("%20"), a      *)
(* placeholder ("{title}"), a URL scheme ("https://").  The empty string   *)
(* and a missing (null / undefined) string are both <<>>: the code only    *)
(* ever tests them for truthiness.                                         *)
(***************************************************************************)
EXTENDS Integers, Sequences, FiniteSets, TLC

\* ------------------------------------------------------------ bounds

\* longest elements sequence of a page document
MaxElems == 2
\* longest items sequence of an image element (image renderer inputs)
MaxItems == 4
\* longest text handed to the rich-text formatter
MaxText == 3
\* clicks on copy controls within one page view
MaxClicks == 2

\* ------------------------------------------------------------ strings

SeqsUpTo(S, n) == UNION {[1..k -> S] : k \in 0..n}

RECURSIVE Flatten(_)
Flatten(ss) == IF ss = <<>> THEN <<>> ELSE Head(ss) \o Flatten(Tail(ss))

\* String.prototype.split(sep) for a one-token separator
Split(s, sep) ==
  LET seps == {i \in 1..Len(s) : s[i] = sep}
      n    == Cardinality(seps)
      pos(j) == IF j = 0 THEN 0
                ELSE IF j = n + 1 THEN Len(s) + 1
                ELSE CHOOSE i \in seps : Cardinality({x \in seps : x <= i}) = j
  IN [j \in 1..(n + 1) |-> SubSeq(s, pos(j - 1) + 1, pos(j) - 1)]

RECURSIVE Join(_, _)
\* Array.prototype.join(sep)
Join(segs, sep) ==
  IF segs = <<>> THEN <<>>
  ELSE IF Len(segs) = 1 THEN segs[1]
  ELSE segs[1] \o <<sep>> \o Join(Tail(segs), sep)

\* [x, ...].pop()
Last(segs) == segs[Len(segs)]

RECURSIVE ReplaceAll(_, _, _)
\* s.replace(/tok/g, val): every occurrence, the inserted text is not rescanned
ReplaceAll(s, tok, val) ==
  IF s = <<>> THEN <<>>
  ELSE (IF Head(s) = tok THEN val ELSE <<Head(s)>>) \o ReplaceAll(Tail(s), tok, val)

RECURSIVE StripLeading(_, _)
\* s.replace(/^c+/, "")
StripLeading(s, c) ==
  IF s # <<>> /\ Head(s) = c THEN StripLeading(Tail(s), c) ELSE s

RECURSIVE StripTrailing(_, _)
\* s.replace(/c+$/, "")
StripTrailing(s, c) ==
  IF s # <<>> /\ s[Len(s)] = c THEN StripTrailing(SubSeq(s, 1, Len(s) - 1), c) ELSE s

StartsWith(s, p) == Len(s) >= Len(p) /\ SubSeq(s, 1, Len(p)) = p

EndsWith(s, p) == Len(s) >= Len(p) /\ SubSeq(s, Len(s) - Len(p) + 1, Len(s)) = p

\* the characters of a token that holds path separators
Chars(s) ==
  Flatten([i \in 1..Len(s) |->
     CASE s[i] = "https://" -> <<"https:", "/", "/">>
       [] s[i] = "http://"  -> <<"http:", "/", "/">>
       [] OTHER -> <<s[i]>>])

\* ------------------------------------------------- percent encoding

\* encodeURIComponent, token by token
encodeToken(c) ==
  CASE c = " "       -> "%20"
    [] c = "#"       -> "%23"
    [] c = "%"       -> "%25"
    [] c = "%20"     -> "%2520"
    [] c = "%25"     -> "%2525"
    [] c = "&"       -> "%26"
    [] c = "<"       -> "%3C"
    [] c = ">"       -> "%3E"
    [] c = "\""      -> "%22"
    [] c = "https:"  -> "https%3A"
    [] c = "http:"   -> "http%3A"
    [] c = "{title}" -> "%7Btitle%7D"
    [] c = "{class}" -> "%7Bclass%7D"
    [] c = "{type}"  -> "%7Btype%7D"
    [] c = "{id}"    -> "%7Bid%7D"
    [] c = "{file}"  -> "%7Bfile%7D"
    [] OTHER -> c

encodeURIComponent(s) == [i \in 1..Len(s) |-> encodeToken(s[i])]

\* decodeURIComponent throws URIError on a "%" that starts no escape
Malformed(s) == \E i \in 1..Len(s) : s[i] = "%"

decodeToken(c) ==
  CASE c = "%20"   -> " "
    [] c = "%23"   -> "#"
    [] c = "%25"   -> "%"
    [] c = "%2520" -> "%20"
    [] c = "%2525" -> "%25"
    [] OTHER -> c

decodeURIComponent(s) == [i \in 1..Len(s) |-> decodeToken(s[i])]

\* ------------------------------------------------------- small helpers

\* s.replace(/\.[^.]+$/, ""): drop the last dot and what follows it, if anything does
stripExt(s) ==
  LET dots == {i \in 1..Len(s) : s[i] = "."}
      last == IF dots = {} THEN 0 ELSE CHOOSE i \in dots : \A j \in dots : j <= i
  IN IF last > 0 /\ last < Len(s) THEN SubSeq(s, 1, last - 1) ELSE s

filenameStem(id) == stripExt(Last(Split(id, "/")))

lowerToken(c) ==
  CASE c = "Notes" -> "notes"
    [] c = "Design" -> "design"
    [] c = "Brief" -> "brief"
    [] c = "Images" -> "images"
    [] c = "Constructor" -> "constructor"
    [] c = "HTTPS://" -> "https://"
    [] c = "PY" -> "py"
    [] OTHER -> c

toLowerCase(s) == [i \in 1..Len(s) |-> lowerToken(s[i])]

Whitespace == {" ", "\t", "\n"}

RemoveWhitespace(s) == SelectSeq(s, LAMBDA c : c \notin Whitespace)

normalizeType(t) == RemoveWhitespace(toLowerCase(t))

\* /^https?:\/\//i
isHttp(url) == url # <<>> /\ lowerToken(url[1]) \in {"http://", "https://"}

normalizeBase(b) == IF b # <<>> /\ ~EndsWith(b, <<"/">>) THEN b \o <<"/">>
                    ELSE IF b # <<>> THEN b ELSE <<"/">>

guessLang(p) ==
  LET s == toLowerCase(p)
      ext(e) == EndsWith(s, <<".", e>>)
  IN CASE ext("py") -> <<"python">>
       [] ext("js") \/ ext("mjs") \/ ext("cjs") -> <<"javascript">>
       [] ext("ts") -> <<"typescript">>
       [] ext("cpp") \/ ext("cc") \/ ext("cxx") -> <<"cpp">>
       [] ext("c") -> <<"c">>
       [] ext("java") -> <<"java">>
       [] ext("json") -> <<"json">>
       [] ext("md") -> <<"markdown">>
       [] ext("html") -> <<"html">>
       [] ext("css") -> <<"css">>
       [] OTHER -> <<>>

\* ---------------------------------------------------- rich text

\* the callback of escapeHtml: the entity table has the key "&gt;" where ">" is
\* meant, so the lookup of ">" yields undefined, which replace() inserts as text
escapeChar(c) ==
  CASE c = "&"  -> "&amp;"
    [] c = "<"  -> "&lt;"
    [] c = ">"  -> "undefined"
    [] c = "\"" -> "&quot;"
    [] c = "'"  -> "&#39;"
    [] OTHER -> c

escapeHtml(s) == [i \in 1..Len(s) |-> escapeChar(s[i])]

\* length of the match of https?:\/\/[^\s)]+ at the head of s, or 0
LinkMatch(s) ==
  IF Len(s) >= 2 /\ s[1] \in {"http://", "https://"} /\ s[2] \notin Whitespace \cup {")"}
  THEN LET stops == {i \in 2..Len(s) : s[i] \in Whitespace \cup {")"}}
       IN IF stops = {} THEN Len(s)
          ELSE (CHOOSE i \in stops : \A j \in stops : i <= j) - 1
  ELSE 0

RECURSIVE Autolink(_)
\* esc.replace(/(https?:\/\/[^\s)]+)/g, '<a href="$1" class="btn">$1</a>')
Autolink(s) ==
  IF s = <<>> THEN <<>>
  ELSE LET m == LinkMatch(s) IN
       IF m > 0
       THEN <<"<a href=\"">> \o SubSeq(s, 1, m) \o <<"\" class=\"btn\">">>
              \o SubSeq(s, 1, m) \o <<"</a>">> \o Autolink(SubSeq(s, m + 1, Len(s)))
       ELSE <<Head(s)>> \o Autolink(Tail(s))

\* length of the match of \*{n}([^*]+)\*{n} at the head of s, or 0
StarMatch(s, n) ==
  IF Len(s) >= 2 * n + 1 /\ (\A i \in 1..n : s[i] = "*") /\ s[n + 1] # "*"
  THEN LET stars == {i \in (n + 1)..Len(s) : s[i] = "*"}
           j == IF stars = {} THEN 0 ELSE CHOOSE i \in stars : \A k \in stars : i <= k
       IN IF j > 0 /\ j + n - 1 <= Len(s) /\ (\A i \in j..(j + n - 1) : s[i] = "*")
          THEN j + n - 1 ELSE 0
  ELSE 0

RECURSIVE Emphasis(_, _, _, _)
\* s.replace(/\*{n}([^*]+)\*{n}/g, open + "$1" + close)
Emphasis(s, n, open, close) ==
  IF s = <<>> THEN <<>>
  ELSE LET m == StarMatch(s, n) IN
       IF m > 0
       THEN <<open>> \o SubSeq(s, n + 1, m - n) \o <<close>>
              \o Emphasis(SubSeq(s, m + 1, Len(s)), n, open, close)
       ELSE <<Head(s)>> \o Emphasis(Tail(s), n, open, close)

richText(s) ==
  LET esc    == escapeHtml(s)
      linked == Autolink(esc)
  IN Emphasis(Emphasis(linked, 2, "<strong>", "</strong>"), 1, "<em>", "</em>")

\* ------------------------------------------------------------ state

VARIABLES
  window,     \* site.config.js: SITE_BASE, REPO_OWNER, REPO_NAME, CLASSES
  location,   \* pathname, and the class / id values URLSearchParams.get returns
  pc,         \* where boot() stands: "boot", "fetch", "json", "done"
  ctx,        \* the route { cls, id } boot() holds
  page,       \* the page document fetchJson resolved with
  fetched,    \* the page JSON locators requested so far
  app,        \* the output container #app
  docTitle,   \* document.title
  pres,       \* the <pre class="code-window"> blocks of the mounted page
  btns,       \* the label of each block's copy control
  handlers,   \* click handlers waiting for navigator.clipboard.writeText
  timers,     \* pending setTimeout callbacks, in firing order
  clipboard,  \* what the system clipboard holds
  clicks,     \* clicks so far
  inp,        \* the argument of a pure function under check
  out         \* its results

vars == <<window, location, pc, ctx, page, fetched, app, docTitle, pres, btns,
          handlers, timers, clipboard, clicks, inp, out>>

BASE == normalizeBase(window.SITE_BASE)

CLASSES == window.CLASSES

\* a || b on strings
Or(a, b) == IF a # <<>> THEN a ELSE b

\* ------------------------------------------------------ route

NoRoute == [cls |-> <<>>, id |-> <<>>]

Includes(list, x) == \E i \in 1..Len(list) : list[i] = x

\* whether parseRoute() throws (URIError from decodeURIComponent)
parseRouteThrows ==
  LET clsQ == location.search.class
      idQ  == location.search.id
  IN IF clsQ # <<>> /\ idQ # <<>> THEN Malformed(clsQ) \/ Malformed(idQ)
     ELSE Malformed(location.pathname)

parseRoute ==
  LET clsQ == location.search.class
      idQ  == location.search.id
  IN IF clsQ # <<>> /\ idQ # <<>>
     THEN [cls |-> decodeURIComponent(clsQ), id |-> decodeURIComponent(idQ)]
     ELSE LET path0 == decodeURIComponent(location.pathname)
              path  == IF BASE # <<"/">> /\ StartsWith(path0, BASE)
                       THEN SubSeq(path0, Len(BASE) + 1, Len(path0)) ELSE path0
              parts == Split(StripTrailing(StripLeading(path, "/"), "/"), "/")
          IN IF Len(parts) >= 2
             THEN IF Len(CLASSES) > 0 /\ ~Includes(CLASSES, parts[1]) THEN NoRoute
                  ELSE [cls |-> parts[1], id |-> Join(Tail(parts), "/")]
             ELSE NoRoute

RawHost == "https://raw.githubusercontent.com/"

\* window.REPO_BRANCH || "main", for a site.config.js that sets no branch
BR == <<"main">>

buildJsonUrlThrows == window.REPO_OWNER = <<>> \/ window.REPO_NAME = <<>>

\* segs.map(encodeURIComponent)
EncodeEach(segs) == [j \in 1..Len(segs) |-> encodeURIComponent(segs[j])]

\* s.split("/").map(encodeURIComponent).join("/")
EncodeSegments(s) == Join(EncodeEach(Split(Chars(s), "/")), "/")

buildJsonUrl(cls, id) ==
  <<RawHost>> \o encodeURIComponent(window.REPO_OWNER) \o <<"/">>
     \o encodeURIComponent(window.REPO_NAME) \o <<"/">> \o encodeURIComponent(BR) \o <<"/">>
     \o Join(<<EncodeSegments(<<"pages">>), EncodeSegments(cls),
               EncodeSegments(id \o <<".json">>)>>, "/")

\* --------------------------------------------------- path resolver

\* the value expandTemplatePath substitutes for {title}
TemplatedTitle(pg, c) ==
  LET idStr == c.id
      file  == filenameStem(idStr)
  IN ReplaceAll(ReplaceAll(ReplaceAll(Or(pg.title, idStr),
        "{file}", file), "{class}", c.cls), "{id}", idStr)

expandTemplatePath(p, pg, c) ==
  LET idStr == c.id
      file  == filenameStem(idStr)
  IN ReplaceAll(ReplaceAll(ReplaceAll(ReplaceAll(ReplaceAll(p,
        "{title}", TemplatedTitle(pg, c)), "{class}", c.cls), "{type}", pg.type),
        "{id}", idStr), "{file}", file)

encodeLocalPath(p) == EncodeSegments(p)

\* the last two lines of makeSrc
absoluteOrLocal(expanded) ==
  IF isHttp(expanded) THEN expanded ELSE BASE \o encodeLocalPath(expanded)

makeSrc(p, pg, c) == absoluteOrLocal(StripLeading(expandTemplatePath(p, pg, c), "/"))

\* ------------------------------------------- title shown by render

\* tpl(str, { file, class, id }): one pass over the {word} tokens of str
tpl(str, file, class, id) ==
  Flatten([i \in 1..Len(str) |->
     CASE str[i] = "{file}"  -> file
       [] str[i] = "{class}" -> class
       [] str[i] = "{id}"    -> id
       [] OTHER -> <<str[i]>>])

pathClean == decodeURIComponent(StripTrailing(location.pathname, "/"))

\* pathClean.split("/").slice(-2, -1)[0] || ""
parentDirRaw ==
  LET segs == Split(pathClean, "/")
  IN IF Len(segs) >= 2 THEN segs[Len(segs) - 1] ELSE <<>>

\* whether lines 71-78 of render throw (URIError)
renderPathThrows == Malformed(StripTrailing(location.pathname, "/")) \/ Malformed(parentDirRaw)

\* the title render() shows in the header and in the tab title
renderTitle(pg, c) ==
  LET fromCtx   == c.id
      urlTail   == Last(Split(pathClean, "/"))
      idStr     == Or(fromCtx, urlTail)
      fileBase  == stripExt(Last(Split(idStr, "/")))
      parentDir == decodeURIComponent(parentDirRaw)
      rawTitle  == Or(Or(Or(pg.title, pg.name), c.id), fileBase)
  IN tpl(rawTitle, fileBase, parentDir, idStr)

\* the prefix of the tab title (its separator is a middle dot)
SitePrefix == "Team 5840C | VRC - "


\* ------------------------------------------------------ renderers

\* An element record holds every field a renderer reads; a field the JSON leaves
\* out is <<>>.  hasItems is Array.isArray(el.items); the items of a design brief
\* are texts (field texts), those of a media element are item records.
NoItem == [src |-> <<>>, label |-> <<>>, language |-> <<>>, alt |-> <<>>,
           description |-> <<>>, code |-> <<>>]

NoElement == [type |-> <<>>, title |-> <<>>, label |-> <<>>, content |-> <<>>,
              text |-> <<>>, src |-> <<>>, hasItems |-> FALSE, items |-> <<>>,
              texts |-> <<>>]

section(title, inner) == [tag |-> "section", title |-> escapeHtml(title), inner |-> inner]

cardOf(html) == [tag |-> "card", html |-> html]

normalizeItems(el) ==
  IF el.hasItems THEN el.items
  ELSE IF el.src # <<>> THEN <<[NoItem EXCEPT !.src = el.src, !.label = el.label]>>
  ELSE <<>>

IsVideoId(tok) == tok \in {"dQw4w9WgXcQ"}

toVideoEmbed(src) ==
  LET url == Chars(src)
      n   == Len(url)
      ids == {i \in 1..n : i < n /\ url[i] \in {"v=", "/"} /\ IsVideoId(url[i + 1])}
      isFile == \E i \in 1..n : /\ i < n /\ url[i] = "."
                                /\ lowerToken(url[i + 1]) \in {"mp4", "webm", "ogg"}
                                /\ (i + 1 = n \/ url[i + 2] = "?")
  IN IF \E i \in 1..n : url[i] \in {"youtu.be", "youtube.com"}
     THEN [tag |-> "iframe",
           src |-> IF ids = {} THEN src
                   ELSE <<"https://", "www.youtube.com", "/", "embed", "/",
                          url[(CHOOSE i \in ids : \A j \in ids : i <= j) + 1]>>]
     ELSE IF isFile THEN [tag |-> "video", src |-> src]
     ELSE [tag |-> "iframe", src |-> src]

PDF_ZOOM == <<"100">>

\* what the HTML parser makes of an escaped text: the text content of the node
unescapeChar(c) ==
  CASE c = "&amp;"  -> "&"
    [] c = "&lt;"   -> "<"
    [] c = "&gt;"   -> ">"
    [] c = "&quot;" -> "\""
    [] c = "&#39;"  -> "'"
    [] OTHER -> c

textContent(html) == [i \in 1..Len(html) |-> unescapeChar(html[i])]

\* "Loading script" followed by an ellipsis character
Loading == <<"Loading script...">>

\* the figure of one item of an image element
imageFigure(src, label, alt, desc, alignLeft) ==
  IF desc # <<>>
  THEN [tag |-> "figure", kind |-> "image", described |-> TRUE,
        align |-> IF alignLeft THEN "align-left" ELSE "align-right",
        src |-> src, alt |-> alt, label |-> label, desc |-> richText(desc)]
  ELSE [tag |-> "figure", kind |-> "image", described |-> FALSE,
        align |-> "", src |-> src, alt |-> alt, label |-> label, desc |-> <<>>]

\* the items.map callback of RENDERERS.image for item it
imageItem(it, describedCount, pg, c) ==
  imageFigure(makeSrc(it.src, pg, c), escapeHtml(Or(it.label, <<"Image">>)),
              escapeHtml(Or(Or(it.alt, it.label), pg.title)), it.description,
              (describedCount % 2) = 0)

RECURSIVE imageItemsCountingAll(_, _, _, _)
\* a variant of imageItems that advances describedCount on every item, which the
\* alternation property must tell from imageItems
imageItemsCountingAll(items, describedCount, pg, c) ==
  IF items = <<>> THEN <<>>
  ELSE <<imageItem(Head(items), describedCount, pg, c)>>
       \o imageItemsCountingAll(Tail(items), describedCount + 1, pg, c)

RECURSIVE imageItems(_, _, _, _)
\* items.map(...) of RENDERERS.image: describedCount advances on described items only
imageItems(items, describedCount, pg, c) ==
  IF items = <<>> THEN <<>>
  ELSE <<imageItem(Head(items), describedCount, pg, c)>>
       \o imageItems(Tail(items),
                     IF Head(items).description # <<>> THEN describedCount + 1
                     ELSE describedCount, pg, c)

renderImage(el, c, i, pg) ==
  section(Or(el.label, <<"Image">>), imageItems(normalizeItems(el), 0, pg, c))

renderSynopsis(el) ==
  section(Or(el.title, <<"Synopsis">>), <<cardOf(richText(Or(el.content, el.text)))>>)

renderDesignBrief(el) ==
  IF el.hasItems
  THEN section(Or(el.title, <<"Design Brief">>),
               [k \in 1..Len(el.texts) |-> cardOf(richText(el.texts[k]))])
  ELSE section(Or(el.title, <<"Design Brief">>), <<cardOf(richText(el.content))>>)

renderNotes(el) ==
  section(Or(Or(el.title, el.label), <<"Notes">>), <<cardOf(richText(el.content))>>)

pdfFigure(src, label) ==
  [tag |-> "figure", kind |-> "pdf", src |-> src,
   embedUrl |-> src \o <<"#zoom=">> \o encodeURIComponent(PDF_ZOOM), label |-> label]

pdfItems(items, pg, c) ==
  [k \in 1..Len(items) |->
     pdfFigure(makeSrc(items[k].src, pg, c), escapeHtml(Or(items[k].label, <<"PDF">>)))]

renderPdf(el, c, i, pg) == section(Or(el.label, <<"PDF">>), pdfItems(normalizeItems(el), pg, c))

videoItems(items, pg, c) ==
  [k \in 1..Len(items) |->
     [tag |-> "figure", kind |-> "video",
      embed |-> toVideoEmbed(makeSrc(items[k].src, pg, c)),
      label |-> escapeHtml(Or(items[k].label, <<"Video">>))]]

renderVideo(el, c, i, pg) ==
  section(Or(el.label, <<"Video">>), videoItems(normalizeItems(el), pg, c))

\* i is the element's index in elements, from 0; the item index k is from 0 too.
\* The random suffix of codeId is left out: <<i, k>> is unique already.
scriptItem(it, i, k, pg, c) ==
  [tag |-> "figure", kind |-> "script", codeId |-> <<i, k>>,
   hasSrc |-> it.code = <<>>,
   src |-> IF it.code # <<>> THEN <<>> ELSE makeSrc(it.src, pg, c),
   label |-> escapeHtml(Or(Or(it.label, it.language), <<"Script">>)),
   lang |-> escapeHtml(Or(it.language, guessLang(it.src))),
   body |-> IF it.code # <<>> THEN escapeHtml(it.code) ELSE Loading]

scriptItems(items, i, pg, c) ==
  [k \in 1..Len(items) |-> scriptItem(items[k], i, k - 1, pg, c)]

renderScript(el, c, i, pg) ==
  section(Or(el.label, <<"Script">>), scriptItems(normalizeItems(el), i, pg, c))

synopsis == <<"synopsis">>
designbrief == <<"design", "brief">>
notes == <<"notes">>
pdf == <<"pdf">>
video == <<"video">>
script == <<"script">>
image == <<"image">>
images == <<"images">>

\* the own keys of RENDERERS
Registered == {synopsis, designbrief, notes, pdf, video, script, image, images}

\* RENDERERS is an object literal: RENDERERS["constructor"] is Object
Inherited == {<<"constructor">>}

ReferenceError == <<"ReferenceError: renderUnknown is not defined">>

\* "RENDERERS[t] || renderUnknown" applied to the element: the fragment, or the
\* error thrown.  No renderUnknown is declared anywhere in the file, so evaluating
\* the expression for a key RENDERERS lacks throws a ReferenceError.
dispatch(t, el, c, i, pg) ==
     CASE t = synopsis    -> [throws |-> FALSE, html |-> renderSynopsis(el)]
       [] t = designbrief -> [throws |-> FALSE, html |-> renderDesignBrief(el)]
       [] t = notes       -> [throws |-> FALSE, html |-> renderNotes(el)]
       [] t = pdf         -> [throws |-> FALSE, html |-> renderPdf(el, c, i, pg)]
       [] t = video       -> [throws |-> FALSE, html |-> renderVideo(el, c, i, pg)]
       [] t = script      -> [throws |-> FALSE, html |-> renderScript(el, c, i, pg)]
       [] t = image       -> [throws |-> FALSE, html |-> renderImage(el, c, i, pg)]
       [] t = images      -> [throws |-> FALSE, html |-> renderImage(el, c, i, pg)]
       [] t \in Inherited -> [throws |-> FALSE,
                              html |-> [tag |-> "text", title |-> <<>>, inner |-> <<>>,
                                        text |-> <<"[object Object]">>]]
       [] OTHER           -> [throws |-> TRUE, err |-> ReferenceError]

renderElement(el, c, i, pg) == dispatch(normalizeType(el.type), el, c, i, pg)

\* elements.map(...).join(""): the fragments in order, or the first error thrown
joined(rs) ==
  LET bad == {i \in 1..Len(rs) : rs[i].throws}
  IN IF bad # {}
     THEN [throws |-> TRUE, err |-> rs[CHOOSE i \in bad : \A j \in bad : i <= j].err]
     ELSE [throws |-> FALSE, html |-> [i \in 1..Len(rs) |-> rs[i].html]]

renderElements(elements, c, pg) ==
  joined([i \in 1..Len(elements) |-> renderElement(elements[i], c, i - 1, pg)])


\* ------------------------------------------------------- composer

URIError == <<"URIError: URI malformed">>

TypeErrorNull == <<"TypeError: Cannot read properties of null (reading ", "'", "title", "'", ")">>

\* card(`<h2>Load error</h2><p class="muted">${escapeHtml(String(err))}</p>`)
\* err keeps the message String(err) the card was made from (a history value)
ErrorCard(err) ==
  [kind |-> "card", heading |-> "Load error", body |-> escapeHtml(err), err |-> err]

MissingRouteCard ==
  [kind |-> "card", heading |-> "Missing route",
   body |-> <<"Open with ">> \o BASE \o <<"interpreter.html?class=DE&id=...">>]

headerOf(title, pg, c) ==
  [tag |-> "header", title |-> escapeHtml(title),
   chips |-> (IF c.cls # <<>> THEN <<escapeHtml(c.cls)>> ELSE <<>>)
             \o (IF pg.type # <<>> THEN <<escapeHtml(pg.type)>> ELSE <<>>),
   date |-> escapeHtml(pg.date)]

abstractOf(pg) ==
  IF Len(pg.brief) > 0
  THEN <<[tag |-> "abstract", items |-> [k \in 1..Len(pg.brief) |-> escapeHtml(pg.brief[k])]]>>
  ELSE <<>>

\* the elements render() hands to renderElements
elementsOf(pg) == IF pg.elementsIsArray THEN pg.elements ELSE <<>>

\* render(page, ctx) up to the mount: what it throws, or the HTML it mounts.
\* titled says whether document.title was assigned before the throw.
\* lines 93-120 of render: header, abstract and elements, up to the mount
compose(title, r, pg, c) ==
  IF r.throws
  THEN [throws |-> TRUE, err |-> r.err, titled |-> TRUE, title |-> title]
  ELSE [throws |-> FALSE, titled |-> TRUE, title |-> title,
        html |-> <<headerOf(title, pg, c)>> \o abstractOf(pg) \o r.html]

render(pg, c) ==
  IF renderPathThrows THEN [throws |-> TRUE, err |-> URIError, titled |-> FALSE, title |-> <<>>]
  ELSE IF pg.isNull
  THEN [throws |-> TRUE, err |-> TypeErrorNull, titled |-> FALSE, title |-> <<>>]
  ELSE compose(renderTitle(pg, c), renderElements(elementsOf(pg), c, pg), pg, c)

NoResult == [kind |-> "none", body |-> <<>>]

\* the <pre class="code-window"> nodes of the mounted HTML, in document order
preOf(fig) ==
  [codeId |-> fig.codeId, hasSrc |-> fig.hasSrc, src |-> fig.src,
   text |-> textContent(fig.body), load |-> "none", result |-> NoResult]

presOf(figs) == [k \in 1..Len(figs) |-> preOf(figs[k])]

IsCodeWindow(x) == x.tag = "figure" /\ x.kind = "script"

codeWindows(html) ==
  Flatten([i \in 1..Len(html) |->
    IF html[i].tag = "section" THEN presOf(SelectSeq(html[i].inner, IsCodeWindow))
    ELSE <<>>])

\* hydrateCodeBlocks up to its first await: a fetch is issued for every
\* pre.code-window[data-src]
startHydration(blocks) ==
  [b \in 1..Len(blocks) |->
     IF blocks[b].hasSrc THEN [blocks[b] EXCEPT !.load = "fetching"] ELSE blocks[b]]

\* a variant of blockText that reports a non-success response as a transport
\* failure, which the hydration property must tell from blockText
blockTextOneMessage(kind, body, url) ==
  IF kind = "ok" THEN body ELSE <<"Error loading: ">> \o url

\* the text a block shows once its retrieval has settled
blockText(kind, body, url) ==
  CASE kind = "ok"    -> body
    [] kind = "notok" -> <<"Failed to load: ">> \o url
    [] OTHER          -> <<"Error loading: ">> \o url


\* ------------------------------------------------------- inputs

Str(w) == <<w>>

Windows ==
  [SITE_BASE : {<<>>, <<"/", "eng-portfolio">>},
   REPO_OWNER : {<<>>, <<"m-jeide">>},
   REPO_NAME : {<<"5840C">>},
   CLASSES : {<<>>, <<Str("DE")>>}]

NoSearch == [class |-> <<>>, id |-> <<>>]

Locations ==
  {[pathname |-> <<"/", "interpreter.html">>, search |-> [class |-> Str("DE"), id |-> Str("a")]],
   [pathname |-> <<"/", "interpreter.html">>, search |-> [class |-> Str("XX"), id |-> Str("a")]],
   [pathname |-> <<"/", "interpreter.html">>, search |-> [class |-> Str("DE"), id |-> Str("%")]],
   [pathname |-> <<"/", "interpreter.html">>, search |-> NoSearch],
   [pathname |-> <<"/", "DE", "/", "a", ".", "py">>, search |-> NoSearch],
   [pathname |-> <<"/", "XX", "/", "a">>, search |-> NoSearch],
   [pathname |-> <<"/", "eng-portfolio", "/", "DE", "/", "a">>, search |-> NoSearch],
   [pathname |-> <<"/", "D", "%25", "E", "/", "a">>, search |-> NoSearch]}

Notes == [NoElement EXCEPT !.type = Str("Notes"), !.content = <<"hello", " ", "*", "x", "*">>]

DesignBrief ==
  [NoElement EXCEPT !.type = <<"Design", " ", "Brief">>, !.hasItems = TRUE,
                    !.texts = <<Str("goal"), <<"a", ">", "b">>>>]

ScriptSrc ==
  [NoElement EXCEPT !.type = Str("script"), !.src = <<"code", "/", "{file}", ".", "py">>]

ScriptMixed ==
  [NoElement EXCEPT !.type = Str("script"), !.hasItems = TRUE,
     !.items = <<[NoItem EXCEPT !.code = <<"x", "<", "y">>, !.language = Str("python")],
                 [NoItem EXCEPT !.src = <<"https://", "h", "/", "m", ".", "js">>]>>]

Gizmo == [NoElement EXCEPT !.type = Str("gizmo"), !.content = Str("hello")]

Constructor == [NoElement EXCEPT !.type = Str("Constructor")]

ElementSamples == {Notes, DesignBrief, ScriptSrc, ScriptMixed, Gizmo, Constructor}

NoPage == [isNull |-> TRUE, title |-> <<>>, name |-> <<>>, type |-> <<>>, date |-> <<>>,
           brief |-> <<>>, elementsIsArray |-> FALSE, elements |-> <<>>]

\* the documents the page JSON may parse to: null, a document without elements,
\* and documents with up to MaxElems elements, with and without a brief
PageDocs ==
  {NoPage, [NoPage EXCEPT !.isNull = FALSE, !.title = Str("{id}")]}
  \cup {[NoPage EXCEPT !.isNull = FALSE, !.title = Str("{id}"), !.type = Str("lab"),
                       !.brief = br, !.elementsIsArray = TRUE, !.elements = els] :
          br \in {<<>>, <<Str("line one")>>}, els \in SeqsUpTo(ElementSamples, MaxElems)}

\* what the resource at a locator holds
Body(url) == <<"text of ">> \o url

\* ------------------------------------------------------- boot

Init ==
  /\ window \in Windows
  /\ location \in Locations
  /\ pc = "boot"
  /\ ctx = NoRoute
  /\ page = NoPage
  /\ fetched = <<>>
  /\ app = [kind |-> "initial"]
  /\ docTitle = <<>>
  /\ pres = <<>>
  /\ btns = <<>>
  /\ handlers = <<>>
  /\ timers = <<>>
  /\ clipboard = <<>>
  /\ clicks = 0
  /\ inp = <<>>
  /\ out = <<>>

\* boot().catch(err => app.innerHTML = card(...))
Fail(err) ==
  /\ app' = ErrorCard(err)
  /\ pc' = "done"

\* boot() up to "await fetchJson(jsonUrl)"
Boot ==
  /\ pc = "boot"
  /\ IF parseRouteThrows
     THEN Fail(URIError) /\ UNCHANGED <<ctx, fetched>>
     ELSE LET r == parseRoute IN
          IF r.cls = <<>> \/ r.id = <<>>
          THEN /\ app' = MissingRouteCard
               /\ pc' = "done"
               /\ ctx' = r
               /\ UNCHANGED fetched
          ELSE IF buildJsonUrlThrows
          THEN /\ Fail(<<"Error: Missing REPO_OWNER or REPO_NAME in site.config.js">>)
               /\ ctx' = r
               /\ UNCHANGED fetched
          ELSE /\ ctx' = r
               /\ fetched' = Append(fetched, buildJsonUrl(r.cls, r.id))
               /\ pc' = "fetch"
               /\ UNCHANGED app
  /\ UNCHANGED <<window, location, page, docTitle, pres, btns, handlers, timers,
                 clipboard, clicks, inp, out>>

\* fetchJson: the response of fetch(url) arrives, or the transport fails
FetchSettle ==
  /\ pc = "fetch"
  /\ \E outcome \in {"ok", "notok", "fail"} :
       CASE outcome = "ok" -> pc' = "json" /\ UNCHANGED app
         [] outcome = "notok" ->
              Fail(<<"Error: Page JSON not found at ">> \o Last(fetched))
         [] OTHER -> Fail(<<"TypeError: Failed to fetch">>)
  /\ UNCHANGED <<window, location, ctx, page, fetched, docTitle, pres, btns, handlers,
                 timers, clipboard, clicks, inp, out>>

\* The message of the SyntaxError JSON parsing throws is the engine's: some name
\* the offending character only, some quote the head of the body as well.
JsonErrors ==
  {<<"SyntaxError: Unexpected token ", "<">>,
   <<"SyntaxError: Unexpected token ", "'", "<", "'", ", ", "\"", "<", "html", ">", "\"",
     "... is not valid JSON">>}

\* r.json() rejects: the body is no JSON
JsonReject ==
  /\ pc = "json"
  /\ \E err \in JsonErrors : Fail(err)
  /\ UNCHANGED <<window, location, ctx, page, fetched, docTitle, pres, btns, handlers,
                 timers, clipboard, clicks, inp, out>>

\* r.json() resolves with the page document and boot() runs render(page, ctx):
\* compose, mount, hydrateCodeBlocks (to its first await) and wireCodeActions
Mount(blocks) ==
  /\ pres' = startHydration(blocks)
  /\ btns' = [b \in 1..Len(blocks) |-> [label |-> "Copy", backed |-> FALSE]]

Rendered(r) ==
  /\ docTitle' = IF r.titled THEN <<SitePrefix>> \o r.title ELSE docTitle
  /\ IF r.throws
     THEN Fail(r.err) /\ UNCHANGED <<pres, btns>>
     ELSE /\ app' = [kind |-> "page", html |-> r.html]
          /\ pc' = "done"
          /\ Mount(codeWindows(r.html))

Render ==
  /\ pc = "json"
  /\ \E pg \in PageDocs :
       /\ page' = pg
       /\ Rendered(render(pg, ctx))
  /\ UNCHANGED <<window, location, ctx, fetched, handlers, timers, clipboard, clicks,
                 inp, out>>

\* hydrateCodeBlocks: the fetch of block b settles
BlockResponse(b) ==
  /\ pres[b].load = "fetching"
  /\ \E outcome \in {"ok", "notok", "fail"} :
       pres' = [pres EXCEPT ![b] =
          IF outcome = "ok" THEN [@ EXCEPT !.load = "reading"]
          ELSE [@ EXCEPT !.load = "done",
                         !.result = [kind |-> outcome, body |-> <<>>],
                         !.text = blockText(outcome, <<>>, pres[b].src)]]
  /\ UNCHANGED <<window, location, pc, ctx, page, fetched, app, docTitle, btns, handlers,
                 timers, clipboard, clicks, inp, out>>

\* hydrateCodeBlocks: r.text() of block b settles
BlockText(b) ==
  /\ pres[b].load = "reading"
  /\ \E outcome \in {"ok", "fail"} :
       LET body == IF outcome = "ok" THEN Body(pres[b].src) ELSE <<>> IN
       pres' = [pres EXCEPT ![b] =
          [@ EXCEPT !.load = "done",
                    !.result = [kind |-> outcome, body |-> body],
                    !.text = blockText(outcome, body, pres[b].src)]]
  /\ UNCHANGED <<window, location, pc, ctx, page, fetched, app, docTitle, btns, handlers,
                 timers, clipboard, clicks, inp, out>>

Hydrate == \E b \in 1..Len(pres) : BlockResponse(b) \/ BlockText(b)

Next == Boot \/ FetchSettle \/ JsonReject \/ Render \/ Hydrate

Spec == Init /\ [][Next]_vars


\* FairSpec: the event loop runs every settled retrieval's continuation, and
\* every retrieval of a script block settles
FairSpec == Spec /\ WF_vars(Hydrate)

\* ------------------------------------------------------- copy control

\* the delegated click handler of wireCodeActions, for the copy control of block
\* b, up to "await navigator.clipboard.writeText(text)"
Click(b) ==
  /\ pc = "done"
  /\ app.kind = "page"
  /\ clicks < MaxClicks
  /\ clicks' = clicks + 1
  /\ handlers' = Append(handlers, [btn |-> b, text |-> pres[b].text])
  /\ UNCHANGED <<window, location, pc, ctx, page, fetched, app, docTitle, pres, btns,
                 timers, clipboard, inp, out>>

\* How the try / catch of the handler ends: writeText resolves; or it rejects (or
\* navigator.clipboard is missing) and document.execCommand("copy") returns true,
\* returns false (the command is not supported or not enabled), or throws.
CopyOutcomes == {"written", "legacy copied", "legacy refused", "legacy throws"}

\* the text reached the clipboard
Copied(oc) == oc \in {"written", "legacy copied"}

\* btn.textContent = 'Copied!' is executed
ShowsCopied(oc) == oc # "legacy throws"

RemoveAt(q, h) == SubSeq(q, 1, h - 1) \o SubSeq(q, h + 1, Len(q))

\* The handler resumes after the await.  backed records, next to the label, whether
\* the assignment of "Copied!" followed an actual copy (a history value).
ClipboardSettle(h) ==
  /\ \E oc \in CopyOutcomes :
       /\ clipboard' = IF Copied(oc) THEN handlers[h].text ELSE clipboard
       /\ btns' = IF ShowsCopied(oc)
                  THEN [btns EXCEPT ![handlers[h].btn] =
                          [label |-> "Copied!", backed |-> Copied(oc)]]
                  ELSE btns
  /\ timers' = Append(timers, handlers[h].btn)
  /\ handlers' = RemoveAt(handlers, h)
  /\ UNCHANGED <<window, location, pc, ctx, page, fetched, app, docTitle, pres,
                 clicks, inp, out>>

\* setTimeout(() => { btn.textContent = 'Copy'; }, 1200): equal delays fire in the
\* order they were set
TimerFire ==
  /\ timers # <<>>
  /\ btns' = [btns EXCEPT ![Head(timers)] = [label |-> "Copy", backed |-> FALSE]]
  /\ timers' = Tail(timers)
  /\ UNCHANGED <<window, location, pc, ctx, page, fetched, app, docTitle, pres,
                 handlers, clipboard, clicks, inp, out>>

Clicked == \E b \in 1..Len(pres) : Click(b)

Settled == \E h \in 1..Len(handlers) : ClipboardSettle(h)

CopyNext == Next \/ Clicked \/ Settled \/ TimerFire

\* the page view with a user clicking copy controls
CopySpec == Init /\ [][CopyNext]_vars

\* ------------------------------------------- resolver, checked alone

RWindows ==
  {[SITE_BASE |-> b, REPO_OWNER |-> <<"m-jeide">>, REPO_NAME |-> <<"5840C">>,
    CLASSES |-> <<>>] : b \in {<<>>, <<"/", "eng-portfolio">>}}

RLocations ==
  {[pathname |-> <<"/", "interpreter.html">>,
    search |-> [class |-> Str("DE"), id |-> <<"a", ".", "py">>]],
   [pathname |-> <<"/", "eng-portfolio", "/", "interpreter.html">>,
    search |-> [class |-> Str("DE"), id |-> <<"1.1.9", "%20", "Soldering">>]],
   [pathname |-> <<"/", "interpreter.html">>,
    search |-> [class |-> Str("DE"), id |-> Str("{class}")]],
   [pathname |-> <<"/", "DE", "/", "a", ".", "py">>, search |-> NoSearch],
   [pathname |-> <<"/", "eng-portfolio", "/", "DE", "/", "sub", "/", "a">>,
    search |-> NoSearch]}

RPages ==
  {[NoPage EXCEPT !.isNull = FALSE, !.title = t, !.name = n, !.type = ty] :
     t \in {<<>>, Str("T"), <<"{class}", " ", "notes">>, Str("{id}"), <<"{file}", "&">>},
     n \in {<<>>, Str("N")},
     ty \in {<<>>, Str("lab"), Str("{class}")}}

Refs ==
  {<<"https://", "h", "/", "{title}", ".", "pdf">>,
   <<"https://", "h", "/", "{type}", "/", "x">>,
   <<"HTTPS://", "h", "/", "{id}">>,
   <<"media", "/", "{title}", ".", "png">>,
   <<"/", "{class}", "/", "{file}", " ", "#", ".", "py">>}

RInit ==
  /\ window \in RWindows
  /\ location \in RLocations
  /\ page \in RPages
  /\ inp \in Refs
  /\ pc = "route"
  /\ ctx = NoRoute
  /\ out = [first |-> <<>>, second |-> <<>>, title |-> <<>>]
  /\ fetched = <<>>
  /\ app = [kind |-> "initial"]
  /\ docTitle = <<>>
  /\ pres = <<>>
  /\ btns = <<>>
  /\ handlers = <<>>
  /\ timers = <<>>
  /\ clipboard = <<>>
  /\ clicks = 0

\* parseRoute() for the location
RouteStep ==
  /\ pc = "route"
  /\ ~parseRouteThrows
  /\ ctx' = parseRoute
  /\ pc' = "resolve"
  /\ UNCHANGED <<window, location, page, fetched, app, docTitle, pres, btns, handlers,
                 timers, clipboard, clicks, inp, out>>

\* makeSrc(ref, page, ctx)
ResolveStep ==
  /\ pc = "resolve"
  /\ out' = [out EXCEPT !.first = makeSrc(inp, page, ctx)]
  /\ pc' = "again"
  /\ UNCHANGED <<window, location, ctx, page, fetched, app, docTitle, pres, btns,
                 handlers, timers, clipboard, clicks, inp>>

\* makeSrc applied to its own result
ResolveAgainStep ==
  /\ pc = "again"
  /\ out' = [out EXCEPT !.second = makeSrc(out.first, page, ctx)]
  /\ pc' = "title"
  /\ UNCHANGED <<window, location, ctx, page, fetched, app, docTitle, pres, btns,
                 handlers, timers, clipboard, clicks, inp>>

\* the title render(page, ctx) puts in the header and in document.title
TitleStep ==
  /\ pc = "title"
  /\ ~renderPathThrows
  /\ out' = [out EXCEPT !.title = renderTitle(page, ctx)]
  /\ docTitle' = <<SitePrefix>> \o renderTitle(page, ctx)
  /\ pc' = "resolved"
  /\ UNCHANGED <<window, location, ctx, page, fetched, app, pres, btns,
                 handlers, timers, clipboard, clicks, inp>>

ResolveNext == RouteStep \/ ResolveStep \/ ResolveAgainStep \/ TitleStep

ResolveSpec == RInit /\ [][ResolveNext]_vars

\* ------------------------------------------ formatter, checked alone

TextAlphabet == {"a", " ", "*", "&", "<", ">", "\"", "'", "https://"}

Texts ==
  SeqsUpTo(TextAlphabet, MaxText)
  \cup {<<"*", "*", "a", ">", "*", "*">>, <<"https://", "a", "&", "b", ")", "*", "c", "*">>}

TInit ==
  /\ inp \in Texts
  /\ pc = "text"
  /\ out = [esc |-> <<>>, html |-> <<>>]
  /\ window = [SITE_BASE |-> <<>>, REPO_OWNER |-> <<>>, REPO_NAME |-> <<>>, CLASSES |-> <<>>]
  /\ location = [pathname |-> <<"/">>, search |-> NoSearch]
  /\ ctx = NoRoute
  /\ page = NoPage
  /\ fetched = <<>>
  /\ app = [kind |-> "initial"]
  /\ docTitle = <<>>
  /\ pres = <<>>
  /\ btns = <<>>
  /\ handlers = <<>>
  /\ timers = <<>>
  /\ clipboard = <<>>
  /\ clicks = 0

\* richText(s), and the escapeHtml(String(s)) it starts with
FormatStep ==
  /\ pc = "text"
  /\ out' = [esc |-> escapeHtml(inp), html |-> richText(inp)]
  /\ pc' = "formatted"
  /\ UNCHANGED <<window, location, ctx, page, fetched, app, docTitle, pres, btns,
                 handlers, timers, clipboard, clicks, inp>>

TextSpec == TInit /\ [][FormatStep]_vars

\* -------------------------------------- image renderer, checked alone

Described == [NoItem EXCEPT !.src = <<"img", "/", "a", ".", "png">>,
                            !.description = <<"see", " ", "*", "a", "*">>]

Undescribed == [NoItem EXCEPT !.src = <<"img", "/", "b", ".", "png">>, !.label = Str("B")]

ItemSamples == {Described, Undescribed}

ImageElement(items) ==
  [NoElement EXCEPT !.type = Str("Images"), !.hasItems = TRUE, !.items = items]

\* a page whose elements are two image elements
IInit ==
  /\ inp \in [1..2 -> SeqsUpTo(ItemSamples, MaxItems)]
  /\ pc = "image"
  /\ out = <<>>
  /\ window = [SITE_BASE |-> <<>>, REPO_OWNER |-> <<>>, REPO_NAME |-> <<>>, CLASSES |-> <<>>]
  /\ location = [pathname |-> <<"/", "DE", "/", "a">>, search |-> NoSearch]
  /\ ctx = [cls |-> Str("DE"), id |-> Str("a")]
  /\ page = [NoPage EXCEPT !.isNull = FALSE, !.title = Str("T")]
  /\ fetched = <<>>
  /\ app = [kind |-> "initial"]
  /\ docTitle = <<>>
  /\ pres = <<>>
  /\ btns = <<>>
  /\ handlers = <<>>
  /\ timers = <<>>
  /\ clipboard = <<>>
  /\ clicks = 0

\* renderElements reaches the next image element of the page
ImageStep ==
  /\ pc = "image"
  /\ out' = Append(out, renderElement(ImageElement(inp[Len(out) + 1]), ctx, Len(out), page).html)
  /\ pc' = IF Len(out) + 1 = Len(inp) THEN "rendered" ELSE "image"
  /\ UNCHANGED <<window, location, ctx, page, fetched, app, docTitle, pres, btns,
                 handlers, timers, clipboard, clicks, inp>>

ImageSpec == IInit /\ [][ImageStep]_vars


\* ===================================================== properties

\* the element fragments of a mounted page: what follows header and abstract
IsFragment(x) == x.tag \notin {"header", "abstract"}

Fragments(html) == SelectSeq(html, IsFragment)

\* whether element i of the page (from 1) has a registered renderer
Unregistered(el) == normalizeType(el.type) \notin Registered

\* boot has fetched and parsed a page document and render(page, ctx) has run
\* past the title lines
PageRendered == pc = "done" /\ ~page.isNull /\ ~renderPathThrows

\* the entity of a character, as the documentation lists them
Entity(c) ==
  CASE c = "&"  -> "&amp;"
    [] c = "<"  -> "&lt;"
    [] c = ">"  -> "&gt;"
    [] c = "\"" -> "&quot;"
    [] c = "'"  -> "&#39;"
    [] OTHER -> c

Entities(s) == [i \in 1..Len(s) |-> Entity(s[i])]

RawChars == {"&", "<", ">", "\"", "'"}

\* C1: a page holding an element of an unregistered type is still composed and
\* mounted, with one fragment per element, and no error is raised.
C1_UnknownTypeRendered ==
  (PageRendered /\ \E i \in 1..Len(elementsOf(page)) : Unregistered(elementsOf(page)[i]))
    => /\ app.kind = "page"
       /\ Len(Fragments(app.html)) = Len(elementsOf(page))

\* C2: the container holds its initial content, one complete page (header,
\* abstract, a fragment of every element), or one card; once boot has ended it
\* holds a page or a card; an error card holds the escaped message of the error.
C2_ContainerWhole ==
  /\ app.kind \in {"initial", "page", "card"}
  /\ pc = "done" => app.kind \in {"page", "card"}
  /\ app.kind = "page" =>
       /\ ~page.isNull
       /\ \A i \in 1..Len(elementsOf(page)) :
            ~renderElement(elementsOf(page)[i], ctx, i - 1, page).throws
       /\ app.html = <<headerOf(renderTitle(page, ctx), page, ctx)>> \o abstractOf(page)
                     \o [i \in 1..Len(elementsOf(page)) |->
                           renderElement(elementsOf(page)[i], ctx, i - 1, page).html]
  /\ (app.kind = "card" /\ app.heading = "Load error") => app.body = Entities(app.err)

\* the text block blk must show, given how its own retrieval ended
OwnText(blk) ==
  IF blk.result.kind = "ok" THEN Body(blk.src)
  ELSE IF blk.result.kind = "notok" THEN <<"Failed to load: ">> \o blk.src
  ELSE <<"Error loading: ">> \o blk.src

AllHydrated == \A b \in 1..Len(pres) : pres[b].hasSrc => pres[b].load = "done"

\* C3: every pending block ends up showing the result of its own retrieval (the
\* text retrieved, "Failed to load: <locator>" or "Error loading: <locator>"); a
\* block's final text and the text of a block without locator never change; the
\* mounted page is never replaced; and every pending block is eventually done.
C3_HydrationIndependent ==
  /\ [](\A b \in 1..Len(pres) : pres[b].load = "done" => pres[b].text = OwnText(pres[b]))
  /\ [][\A b \in 1..Len(pres) :
          pres[b].load \in {"done", "none"} => pres'[b] = pres[b]]_vars
  /\ [][app.kind = "page" => (app' = app /\ pc' = "done")]_vars
  /\ (app.kind = "page") ~> AllHydrated

\* two blocks of one page are done, one with its text and one with a failure
C3_Witness ==
  /\ app.kind = "page"
  /\ AllHydrated
  /\ \E b1, b2 \in 1..Len(pres) :
       /\ pres[b1].load = "done" /\ pres[b1].result.kind = "ok"
       /\ pres[b2].load = "done" /\ pres[b2].result.kind \in {"notok", "fail"}

\* C4: the mounted output is header, abstract, then one fragment per element in
\* the order of the elements; a page without elements has an empty elements zone.
C4_OrderPreserved ==
  PageRendered =>
    /\ app.kind = "page"
    /\ Len(Fragments(app.html)) = Len(elementsOf(page))
    /\ \A i \in 1..Len(elementsOf(page)) :
         ~renderElement(elementsOf(page)[i], ctx, i - 1, page).throws
           => Fragments(app.html)[i] = renderElement(elementsOf(page)[i], ctx, i - 1, page).html

\* C5: with a non-empty allow-list, a page document is fetched only for a route
\* whose class is in the list.
C5_AllowList ==
  (Len(CLASSES) > 0 /\ fetched # <<>>) => Includes(CLASSES, ctx.cls)

\* C6: a copy control reads "Copied!" only after the block's text was copied.
C6_CopiedMeansCopied ==
  \A b \in 1..Len(btns) : btns[b].label = "Copied!" => btns[b].backed

\* C7: a reference resolved to an absolute http(s) locator resolves to itself.
C7_Idempotent ==
  (pc \in {"title", "resolved"} /\ isHttp(out.first)) => out.second = out.first

\* the tokens the three markup substitutions add
Markup == {"<a href=\"", "\" class=\"btn\">", "</a>", "<strong>", "</strong>", "<em>", "</em>"}

\* C8: escaping replaces each of & < > " ' by its entity and leaves the rest, and
\* the formatted text holds none of the five raw outside the added markup.
C8_Escaped ==
  pc = "formatted" =>
    /\ out.esc = Entities(inp)
    /\ \A i \in 1..Len(out.html) : out.html[i] \notin Markup => out.html[i] \notin RawChars

\* the number of described items among the first n of items
RECURSIVE DescribedBefore(_, _)
DescribedBefore(items, n) ==
  IF n = 0 THEN 0
  ELSE DescribedBefore(items, n - 1) + (IF items[n].description # <<>> THEN 1 ELSE 0)

\* C9: in every image element rendered, the described item with k described items
\* before it is aligned left for even k and right for odd k; an item without
\* description is centred without alignment class; each element starts at left.
C9_Alternation ==
  \A e \in 1..Len(out) :
    /\ Len(out[e].inner) = Len(inp[e])
    /\ \A j \in 1..Len(inp[e]) :
         IF inp[e][j].description # <<>>
         THEN /\ out[e].inner[j].described
              /\ out[e].inner[j].align =
                   (IF DescribedBefore(inp[e], j - 1) % 2 = 0 THEN "align-left" ELSE "align-right")
         ELSE /\ ~out[e].inner[j].described
              /\ out[e].inner[j].align = ""

\* the first element has described, plain, described, plain items, rendered
\* left, centred, right, centred; the second element starts with a described
\* item, rendered left again
C9_Witness ==
  /\ pc = "rendered"
  /\ Len(inp[1]) = 4
  /\ inp[1][1].description # <<>> /\ inp[1][2].description = <<>>
  /\ inp[1][3].description # <<>> /\ inp[1][4].description = <<>>
  /\ out[1].inner[1].align = "align-left" /\ out[1].inner[2].align = ""
  /\ out[1].inner[3].align = "align-right" /\ out[1].inner[4].align = ""
  /\ Len(inp[2]) >= 1 /\ inp[2][1].description # <<>>
  /\ out[2].inner[1].align = "align-left"

\* C10: the value substituted for {title} in a media reference is the title shown
\* in the header and in the tab title.
C10_TitleConsistent ==
  pc = "resolved" =>
    /\ TemplatedTitle(page, ctx) = out.title
    /\ docTitle = <<SitePrefix>> \o TemplatedTitle(page, ctx)


====
